---- MODULE Spec2Model ----
(***************************************************************************)
(* Credential lifecycle of the <auth-demo> element                         *)
(* (web-implict/src/main.ts): the element's four @state fields, the        *)
(* asynchronous handlers _run, _revoke and _requestAuthorization, the      *)
(* provider callbacks that resume them, and fetchFileList.                 *)
(*                                                                         *)
(* JavaScript is single threaded: every handler runs to its next await,    *)
(* and a continuation that a resolved promise makes runnable is a          *)
(* microtask, which runs before the next provider callback, network        *)
(* response or click.  One action of the model is therefore one task of    *)
(* the event loop together with the microtasks it makes runnable.          *)
(***************************************************************************)
EXTENDS Integers, Sequences, FiniteSets, TLC

VARIABLES
    files,           \* this._files
    accessToken,     \* this._accessToken
    tokenExpiresAt,  \* this._tokenExpiresAt
    error,           \* this._error
    now,             \* Date.now()
    run,             \* the invocations of _run, one record per click on "Fetch files"
    revoke,          \* the invocations of _revoke, one record per click on "Revoke access"
    call             \* a fetchFileList call taken on its own: its response and what
                     \* it settles with (FetchSpec); the element's own calls are in run

vars == <<files, accessToken, tokenExpiresAt, error, now, run, revoke, call>>

(***************************************************************************)
(* Bounds of the model                                                     *)
(***************************************************************************)
\* the clicks on the two buttons that the model follows, and the last instant
MaxTriggers == 3
MaxTime == 1001
\* the longest file collection of a response to a fetchFileList call taken on its own
MaxFiles == 2

Runs == 1..MaxTriggers
Revokes == 1..MaxTriggers

(***************************************************************************)
(* Values                                                                  *)
(***************************************************************************)
Null == "null"
Tokens == {"T1", "T2"}

\* expires_in * 1000: seconds to milliseconds
MsPerSecond == 1000

\* response.expires_in values the provider answers with
ExpiresIn == {1}

\* the instants Date.now() is sampled at: the start, and each later whole second
\* and the millisecond after it (a token granted at the start expires there)
Times == {0} \cup {t \in MsPerSecond..MaxTime : t % MsPerSecond \in {0, 1}}

\* a JavaScript value held by _files / body.files: an array or undefined
Arr(s) == [kind |-> "array", items |-> s]
Undefined == [kind |-> "undefined", items |-> <<>>]

\* the bodies the listing endpoint answers with: body.files
Bodies == {Arr(<<>>), Arr(<<"a", "b">>), Undefined}

\* res.status values
Statuses == {200, 399, 400, 401, 403, 500}

\* the messages the element stores in _error
MsgCallbackDenied == "Authorization required."
MsgPopupClosed == "Authorization required"
MsgUnexpected == "An unexpected error occurred"
MsgFetchFailed == "Unable to fetch files"

\* err.type values the provider's error_callback is given
ErrTypes == {"popup_closed", "popup_failed_to_open"}

\* the responses the provider's callback is given
Responses ==
    [access_token : Tokens \cup {Null}, expires_in : ExpiresIn, scopeGranted : BOOLEAN]

\* the outcomes google.accounts.oauth2.revoke reports: done.successful
RevokeResults == {"ok", "failed"}

(***************************************************************************)
(* Records of the handler invocations                                      *)
(***************************************************************************)
\* A _run invocation.
\*   pc      : "idle" not clicked, "authorizing" awaiting _requestAuthorization,
\*             "listing" awaiting fetchFileList, "done" returned, "failed" rejected
\*   auth    : "none" no round-trip, "inflight", or the provider's outcome
\*   promise : the promise of _requestAuthorization
\*   listed  : fetchFileList was called;  bearer : its argument
\* A run that fetchFileList has settled keeps pc and listed only: its round-trip,
\* its promise and the request are gone.
IdleRun ==
    [pc |-> "idle", auth |-> "none", promise |-> "none", listed |-> FALSE, bearer |-> Null]

\* A _revoke invocation.
\*   pc  : "idle", "returned" (early return), "inflight" (provider called), "done"
\*   tok : the argument of the google.accounts.oauth2.revoke call in flight
\*   result : done.successful, as the callback was given it
IdleRevoke == [pc |-> "idle", tok |-> Null, result |-> "none"]

\* fetchFileList before its response
Pending == [kind |-> "pending", value |-> Undefined, msg |-> Null]

\* no fetchFileList call is taken on its own
NoCall == [status |-> 0, body |-> Undefined, result |-> Pending]

\* the clicks so far
Triggered ==
    Cardinality({i \in Runs : run[i].pc # "idle"})
        + Cardinality({v \in Revokes : revoke[v].pc # "idle"})

Init ==
    /\ files = Arr(<<>>)
    /\ accessToken = Null
    /\ tokenExpiresAt = 0
    /\ error = Null
    /\ now = 0
    /\ run = [i \in Runs |-> IdleRun]
    /\ revoke = [v \in Revokes |-> IdleRevoke]
    /\ call = NoCall

(***************************************************************************)
(* fetchFileList                                                           *)
(***************************************************************************)
\* what fetchFileList settles with, given the response
FetchFileListResult(status, body) ==
    IF status >= 400
    THEN [kind |-> "throw", value |-> Undefined, msg |-> MsgFetchFailed]
    ELSE [kind |-> "return", value |-> body, msg |-> Null]

\* the responses a fetchFileList call taken on its own is given
FetchStatuses == {200, 201, 204, 304, 399, 400, 401, 403, 404, 500, 503}
FileNames == {"a", "b"}
FetchBodies ==
    {Undefined} \cup {Arr(s) : s \in UNION {[1..n -> FileNames] : n \in 0..MaxFiles}}

\* a fetchFileList call with a response drawn from the sets above, in a fresh element
FetchInit ==
    /\ files = Arr(<<>>)
    /\ accessToken = Null
    /\ tokenExpiresAt = 0
    /\ error = Null
    /\ now = 0
    /\ run = [i \in Runs |-> IdleRun]
    /\ revoke = [v \in Revokes |-> IdleRevoke]
    /\ call \in [status : FetchStatuses, body : FetchBodies, result : {Pending}]

\* the response arrives and fetchFileList settles
FetchFileListSettles ==
    /\ call.result = Pending
    /\ call' = [call EXCEPT !.result = FetchFileListResult(call.status, call.body)]
    /\ UNCHANGED <<files, accessToken, tokenExpiresAt, error, now, run, revoke>>

FetchNext == FetchFileListSettles

FetchSpec == FetchInit /\ [][FetchNext]_vars

(***************************************************************************)
(* _run                                                                    *)
(***************************************************************************)
\* the comparison of _run's if, turned around
NeedsAuthorizationInverted(tok, exp, t) == tok = Null \/ exp > t

\* the condition of _run's if
NeedsAuthorization(tok, exp, t) == tok = Null \/ exp < t

\* the value of fetchFileList's call: the request leaves with the token read now
IssueListing(r, tok) == [r EXCEPT !.pc = "listing", !.listed = TRUE, !.bearer = tok]

\* _requestAuthorization up to client.requestAccessToken()
StartRoundTrip(r) == [r EXCEPT !.pc = "authorizing", !.auth = "inflight", !.promise = "pending"]

\* a click on "Fetch files": _run up to its first await
RunTrigger(i) ==
    /\ run[i].pc = "idle"
    /\ \A j \in Runs : j < i => run[j].pc # "idle"
    /\ Triggered < MaxTriggers
    /\ run' = [run EXCEPT ![i] =
                  IF NeedsAuthorization(accessToken, tokenExpiresAt, now)
                  THEN StartRoundTrip(run[i])
                  ELSE IssueListing(run[i], accessToken)]
    /\ UNCHANGED <<files, accessToken, tokenExpiresAt, error, now, revoke, call>>

(***************************************************************************)
(* _requestAuthorization: the provider's callbacks                         *)
(***************************************************************************)
\* the condition of the callback's if; scopeGranted is hasGrantedAnyScope(response, scope)
IsGranted(response) == response.access_token # Null /\ response.scopeGranted

\* how the model names a response the callback does not accept
DeniedKind(response) ==
    IF response.access_token = Null THEN "no_access_token" ELSE "scope_not_granted"

\* callback storing expires_in as it is, seconds taken for milliseconds
CallbackNoConversion(i, response) ==
    /\ run[i].auth = "inflight"
    /\ IF IsGranted(response)
       THEN /\ error' = Null
            /\ accessToken' = response.access_token
            /\ tokenExpiresAt' = now + response.expires_in
            /\ run' = [run EXCEPT ![i] =
                          IssueListing([run[i] EXCEPT !.auth = "granted",
                                                      !.promise = "resolved"],
                                       response.access_token)]
       ELSE /\ error' = MsgCallbackDenied
            /\ run' = [run EXCEPT ![i].auth = DeniedKind(response)]
            /\ UNCHANGED <<accessToken, tokenExpiresAt>>
    /\ UNCHANGED <<files, now, revoke, call>>

\* callback calling resolve() on a denial too: _run goes on with the token as it is
CallbackAlwaysResolves(i, response) ==
    /\ run[i].auth = "inflight"
    /\ IF IsGranted(response)
       THEN /\ error' = Null
            /\ accessToken' = response.access_token
            /\ tokenExpiresAt' = now + response.expires_in * MsPerSecond
            /\ run' = [run EXCEPT ![i] =
                          IssueListing([run[i] EXCEPT !.auth = "granted",
                                                      !.promise = "resolved"],
                                       response.access_token)]
       ELSE /\ error' = MsgCallbackDenied
            /\ run' = [run EXCEPT ![i] =
                          IssueListing([run[i] EXCEPT !.auth = DeniedKind(response),
                                                      !.promise = "resolved"],
                                       accessToken)]
            /\ UNCHANGED <<accessToken, tokenExpiresAt>>
    /\ UNCHANGED <<files, now, revoke, call>>

\* callback(response): on a grant the credential is stored and resolve() makes
\* _run's continuation runnable, which calls fetchFileList(this._accessToken);
\* otherwise only _error is set and the promise is left as it is
Callback(i, response) ==
    /\ run[i].auth = "inflight"
    /\ IF IsGranted(response)
       THEN /\ error' = Null
            /\ accessToken' = response.access_token
            /\ tokenExpiresAt' = now + response.expires_in * MsPerSecond
            /\ run' = [run EXCEPT ![i] =
                          IssueListing([run[i] EXCEPT !.auth = "granted",
                                                      !.promise = "resolved"],
                                       response.access_token)]
       ELSE /\ error' = MsgCallbackDenied
            /\ run' = [run EXCEPT ![i].auth = DeniedKind(response)]
            /\ UNCHANGED <<accessToken, tokenExpiresAt>>
    /\ UNCHANGED <<files, now, revoke, call>>

\* how the model names the outcome error_callback reports
ErrorKind(type) == IF type = "popup_closed" THEN "popup_closed" ELSE "provider_error"

\* the message error_callback stores
ErrorMessage(type) == IF type = "popup_closed" THEN MsgPopupClosed ELSE MsgUnexpected

\* error_callback with resolve() in the place of reject(err): _run goes on to list
ErrorCallbackResolves(i, type) ==
    /\ run[i].auth = "inflight"
    /\ error' = ErrorMessage(type)
    /\ run' = [run EXCEPT ![i] =
                  IssueListing([run[i] EXCEPT !.auth = ErrorKind(type), !.promise = "resolved"],
                               accessToken)]
    /\ UNCHANGED <<files, accessToken, tokenExpiresAt, now, revoke, call>>

\* error_callback(err): _error is set and reject(err) makes _run throw at its await
ErrorCallback(i, type) ==
    /\ run[i].auth = "inflight"
    /\ error' = ErrorMessage(type)
    /\ run' = [run EXCEPT ![i] = [run[i] EXCEPT !.pc = "failed", !.auth = ErrorKind(type),
                                                !.promise = "rejected"]]
    /\ UNCHANGED <<files, accessToken, tokenExpiresAt, now, revoke, call>>

(***************************************************************************)
(* _run after fetchFileList settles                                        *)
(***************************************************************************)
\* the record of a run whose fetchFileList has settled
Settled(pc) == [IdleRun EXCEPT !.pc = pc, !.listed = TRUE]

\* _run catching a failed listing and asking for authorization again
ListingResponseRetries(i, status, body) ==
    /\ run[i].pc = "listing"
    /\ LET res == FetchFileListResult(status, body)
       IN  IF res.kind = "throw"
           THEN /\ run' = [run EXCEPT ![i] = StartRoundTrip(run[i])]
                /\ UNCHANGED files
           ELSE /\ run' = [run EXCEPT ![i] = Settled("done")]
                /\ files' = res.value
    /\ UNCHANGED <<accessToken, tokenExpiresAt, error, now, revoke, call>>

\* _run dropping the credential and the list when the listing fails
ListingResponseInvalidates(i, status, body) ==
    /\ run[i].pc = "listing"
    /\ LET res == FetchFileListResult(status, body)
       IN  IF res.kind = "throw"
           THEN /\ run' = [run EXCEPT ![i] = Settled("failed")]
                /\ files' = Arr(<<>>)
                /\ accessToken' = Null
           ELSE /\ run' = [run EXCEPT ![i] = Settled("done")]
                /\ files' = res.value
                /\ UNCHANGED accessToken
    /\ UNCHANGED <<tokenExpiresAt, error, now, revoke, call>>

\* the HTTP response arrives and its body parses
ListingResponse(i, status, body) ==
    /\ run[i].pc = "listing"
    /\ LET res == FetchFileListResult(status, body)
       IN  IF res.kind = "throw"
           THEN /\ run' = [run EXCEPT ![i] = Settled("failed")]
                /\ UNCHANGED files
           ELSE /\ run' = [run EXCEPT ![i] = Settled("done")]
                /\ files' = res.value
    /\ UNCHANGED <<accessToken, tokenExpiresAt, error, now, revoke, call>>

\* fetch() rejects (no response), or res.json() rejects (the body is no JSON)
ListingRejected(i) ==
    /\ run[i].pc = "listing"
    /\ run' = [run EXCEPT ![i] = Settled("failed")]
    /\ UNCHANGED <<files, accessToken, tokenExpiresAt, error, now, revoke, call>>

(***************************************************************************)
(* _revoke                                                                 *)
(***************************************************************************)
\* _revoke clearing the state before the provider answers
RevokeTriggerOptimistic(v) ==
    /\ revoke[v].pc = "idle"
    /\ \A w \in Revokes : w < v => revoke[w].pc # "idle"
    /\ Triggered < MaxTriggers
    /\ revoke' = [revoke EXCEPT ![v] =
                     IF accessToken = Null
                     THEN [revoke[v] EXCEPT !.pc = "returned"]
                     ELSE [revoke[v] EXCEPT !.pc = "inflight", !.tok = accessToken]]
    /\ files' = Arr(<<>>)
    /\ accessToken' = Null
    /\ UNCHANGED <<tokenExpiresAt, error, now, run, call>>

\* _revoke without its early return
RevokeTriggerUnguarded(v) ==
    /\ revoke[v].pc = "idle"
    /\ \A w \in Revokes : w < v => revoke[w].pc # "idle"
    /\ Triggered < MaxTriggers
    /\ revoke' = [revoke EXCEPT ![v] = [revoke[v] EXCEPT !.pc = "inflight", !.tok = accessToken]]
    /\ UNCHANGED <<files, accessToken, tokenExpiresAt, error, now, run, call>>

\* a click on "Revoke access": _revoke up to the provider call
RevokeTrigger(v) ==
    /\ revoke[v].pc = "idle"
    /\ \A w \in Revokes : w < v => revoke[w].pc # "idle"
    /\ Triggered < MaxTriggers
    /\ revoke' = [revoke EXCEPT ![v] =
                     IF accessToken = Null
                     THEN [revoke[v] EXCEPT !.pc = "returned"]
                     ELSE [revoke[v] EXCEPT !.pc = "inflight", !.tok = accessToken]]
    /\ UNCHANGED <<files, accessToken, tokenExpiresAt, error, now, run, call>>

\* the callback given to google.accounts.oauth2.revoke
RevokeCallback(v, result) ==
    /\ revoke[v].pc = "inflight"
    /\ files' = Arr(<<>>)
    /\ accessToken' = Null
    /\ revoke' = [revoke EXCEPT ![v] = [pc |-> "done", tok |-> Null, result |-> result]]
    /\ UNCHANGED <<tokenExpiresAt, error, now, run, call>>

\* time passes
Tick ==
    /\ \E t \in Times : t > now /\ now' = t
    /\ UNCHANGED <<files, accessToken, tokenExpiresAt, error, run, revoke, call>>

Next ==
    \/ \E i \in Runs : RunTrigger(i)
    \/ \E i \in Runs, response \in Responses : Callback(i, response)
    \/ \E i \in Runs, type \in ErrTypes : ErrorCallback(i, type)
    \/ \E i \in Runs, status \in Statuses, body \in Bodies : ListingResponse(i, status, body)
    \/ \E i \in Runs : ListingRejected(i)
    \/ \E v \in Revokes : RevokeTrigger(v)
    \/ \E v \in Revokes, result \in RevokeResults : RevokeCallback(v, result)
    \/ Tick

Spec == Init /\ [][Next]_vars

(***************************************************************************)
(* Steps and sets the properties speak of                                  *)
(***************************************************************************)
\* the authorization round-trips whose provider callback has not fired
RoundTripsInFlight == {i \in Runs : run[i].auth = "inflight"}

\* the outcomes of a round-trip that are denials
DenialKinds == {"no_access_token", "scope_not_granted", "popup_closed", "provider_error"}
DenialMessages == {MsgCallbackDenied, MsgPopupClosed, MsgUnexpected}

\* the step is the click that starts run i
TriggerStep(i) == run[i].pc = "idle" /\ run'[i].pc # "idle"
\* the step starts a round-trip for run i
StartsRoundTrip(i) == run[i].auth # "inflight" /\ run'[i].auth = "inflight"
\* the step calls fetchFileList for run i
IssuesListing(i) == ~run[i].listed /\ run'[i].listed
\* the step is a provider callback that denies run i's round-trip
DenialStep(i) == run[i].auth = "inflight" /\ run'[i].auth \in DenialKinds
\* the step is a provider callback that grants run i's round-trip
GrantStep(i) == run[i].auth = "inflight" /\ run'[i].auth = "granted"
\* the step is the listing response that run i stores
ListingStored(i) == run[i].pc = "listing" /\ run'[i].pc = "done"
\* the step is the click that starts revoke v
RevokeStep(v) == revoke[v].pc = "idle" /\ revoke'[v].pc # "idle"
\* the step is the provider's completion callback of revoke v
RevokeCompletes(v) == revoke[v].pc = "inflight" /\ revoke'[v].pc = "done"
\* the step is a listing request of run i failing
ListingFails(i) == run[i].pc = "listing" /\ run'[i].pc = "failed"
\* no valid token is held: none, or one at or past its expiry
Unauthorized == accessToken = Null \/ tokenExpiresAt <= now
\* the file list shows at least one file
FilesShown == files.kind = "array" /\ Len(files.items) > 0

(***************************************************************************)
(* C1                                                                      *)
(***************************************************************************)
\* C1: at most one provider authorization round-trip is outstanding at any time,
\* whatever the interleaving of fetch triggers.
C1_SingleFlight == Cardinality(RoundTripsInFlight) <= 1

(***************************************************************************)
(* C2                                                                      *)
(***************************************************************************)
\* C2: a fetch trigger that arrives when expiresAt <= now (equality included)
\* starts a round-trip and issues no listing request in that step; a trigger
\* reuses the token only when now < expiresAt strictly.
C2_ExpiryBoundary ==
    [][\A i \in Runs :
          /\ (TriggerStep(i) /\ tokenExpiresAt <= now)
                 => (StartsRoundTrip(i) /\ ~IssuesListing(i))
          /\ (TriggerStep(i) /\ IssuesListing(i)) => now < tokenExpiresAt]_vars

(***************************************************************************)
(* C3                                                                      *)
(***************************************************************************)
\* C3: a fetch trigger that arrives while a token is stored and its expiresAt is
\* strictly in the future issues the listing request with the stored token and
\* starts no round-trip.
C3_CachedReuse ==
    [][\A i \in Runs :
          (TriggerStep(i) /\ accessToken # Null /\ now < tokenExpiresAt)
             => /\ IssuesListing(i)
                /\ run'[i].bearer = accessToken
                /\ run'[i].auth = "none"
                /\ \A j \in Runs : ~StartsRoundTrip(j)]_vars

\* a second trigger within the lifetime of the token the first one was granted:
\* its listing request is out with the stored token and it made no round-trip
C3_Witness ==
    \E i, j \in Runs :
        /\ j < i
        /\ run[j].pc = "done"
        /\ run[i].pc = "listing" /\ run[i].auth = "none"
        /\ run[i].bearer = accessToken /\ accessToken # Null
        /\ now < tokenExpiresAt

(***************************************************************************)
(* C4                                                                      *)
(***************************************************************************)
\* C4: in every reachable state the token is present if and only if expiresAt is
\* not the sentinel 0.
C4_CredentialAtomic == (accessToken # Null) <=> (tokenExpiresAt # 0)

(***************************************************************************)
(* C5                                                                      *)
(***************************************************************************)
\* C5: once the provider callback of a round-trip has fired, whatever its outcome,
\* the promise of _requestAuthorization is settled (resolved or rejected): it is
\* pending only while the round-trip is in flight.
C5_AuthorizationSettles ==
    \A i \in Runs : run[i].promise = "pending" => run[i].auth = "inflight"

(***************************************************************************)
(* C6                                                                      *)
(***************************************************************************)
\* C6: after any Denied outcome of a round-trip the stored credential is absent
\* (token null, expiresAt the sentinel) and the error state holds a denial message.
C6_DenialClears ==
    [][\A i \in Runs :
          DenialStep(i) => /\ accessToken' = Null
                           /\ tokenExpiresAt' = 0
                           /\ error' \in DenialMessages]_vars

(***************************************************************************)
(* C7                                                                      *)
(***************************************************************************)
\* C7: a trigger's listing request is issued either at the click, when no
\* round-trip is needed, or in the step that grants its round-trip and resolves
\* its promise; no listing request is out while the round-trip is in flight, and
\* after a Denied outcome none is ever issued for that trigger.
C7_AuthorizationPrecedesListing ==
    [][\A i \in Runs :
          /\ IssuesListing(i)
                 => \/ TriggerStep(i) /\ run'[i].auth = "none"
                    \/ GrantStep(i) /\ run'[i].promise = "resolved"
          /\ run'[i].auth = "inflight" => ~run'[i].listed
          /\ run[i].auth \in DenialKinds
                 => ~run'[i].listed /\ run'[i].auth = run[i].auth]_vars

\* one trigger's round-trip was granted and its listing request is out, another
\* trigger's round-trip was denied and it has issued none
C7_Witness ==
    \E i, j \in Runs :
        /\ run[i].pc = "listing" /\ run[i].auth = "granted"
        /\ run[j].auth \in DenialKinds /\ ~run[j].listed

C9_FailedRevokeKeeps ==
    [][\A v \in Revokes :
          (RevokeCompletes(v) /\ revoke'[v].result = "failed")
             => /\ accessToken' = accessToken
                /\ tokenExpiresAt' = tokenExpiresAt
                /\ files' = files]_vars

(***************************************************************************)
(* C10                                                                     *)
(***************************************************************************)
\* C10: a revoke triggered while no token is stored returns without calling the
\* provider and leaves token, expiresAt, file list and error state unchanged.
C10_RevokeWithoutToken ==
    [][\A v \in Revokes :
          (RevokeStep(v) /\ accessToken = Null)
             => /\ revoke'[v] = [IdleRevoke EXCEPT !.pc = "returned"]
                /\ \A w \in Revokes : revoke'[w].pc = "inflight" => revoke[w].pc = "inflight"
                /\ UNCHANGED <<accessToken, tokenExpiresAt, files, error>>]_vars

\* a revoke was triggered with no token stored and has returned
C10_Witness ==
    \E v \in Revokes : revoke[v].pc = "returned" /\ accessToken = Null

(***************************************************************************)
(* C11                                                                     *)
(***************************************************************************)
\* C11: whenever a listing request fails, the error state is set to a message
\* of that failure, replacing any prior one: it is neither absent nor a message
\* left over from an authorization.
C11_ListingFailureSurfaced ==
    [][\A i \in Runs :
          ListingFails(i) => error' # Null /\ error' \notin DenialMessages]_vars

(***************************************************************************)
(* C12                                                                     *)
(***************************************************************************)
\* C12: a grant of token T with expires_in = s processed at time t stores T,
\* sets expiresAt to t + 1000*s and clears the error state; a later trigger that
\* finds T stored before its expiresAt lists with T without a round-trip, and a
\* trigger past expiresAt starts a new round-trip.
C12_GrantStoresCredential ==
    [][\A i \in Runs :
          /\ GrantStep(i)
                 => /\ accessToken' \in Tokens
                    /\ run'[i].bearer = accessToken'
                    /\ \E s \in ExpiresIn : tokenExpiresAt' = now + 1000 * s
                    /\ error' = Null
          /\ (TriggerStep(i) /\ accessToken # Null /\ now < tokenExpiresAt)
                 => /\ run'[i].pc = "listing" /\ run'[i].bearer = accessToken
                    /\ ~StartsRoundTrip(i)
          /\ (TriggerStep(i) /\ accessToken # Null /\ now > tokenExpiresAt)
                 => StartsRoundTrip(i) /\ ~IssuesListing(i)]_vars

\* a token granted at the start is stored with expiresAt 1000; a trigger before
\* 1000 is listing with it and made no round-trip, and a later trigger, which
\* found it expired, is in a new round-trip at 1001
C12_Witness ==
    \E i, j \in Runs :
        /\ i < j
        /\ run[i].pc = "listing" /\ run[i].auth = "none" /\ run[i].bearer = accessToken
        /\ run[j].auth = "inflight"
        /\ tokenExpiresAt = 1000 /\ now = 1001

(***************************************************************************)
(* C13                                                                     *)
(***************************************************************************)
\* C13: a round-trip starts only at a click, a run calls fetchFileList at most
\* once, the step in which a listing fails or a round-trip is denied starts no
\* round-trip and no listing request, and a run that has been denied or has
\* ended takes no further step.
C13_NoAutomaticRetry ==
    [][\A i \in Runs :
          /\ StartsRoundTrip(i) => TriggerStep(i)
          /\ (run'[i].pc = "listing" /\ run[i].pc # "listing") => ~run[i].listed
          /\ (ListingFails(i) \/ DenialStep(i))
                 => \A j \in Runs : ~StartsRoundTrip(j) /\ ~IssuesListing(j)
          /\ (run[i].pc \in {"done", "failed"} \/ run[i].auth \in DenialKinds)
                 => run'[i] = run[i]]_vars

\* one trigger's listing has failed and another's round-trip was denied, and
\* neither a round-trip nor a listing request is under way
C13_Witness ==
    \E i, j \in Runs :
        /\ run[i].pc = "failed" /\ run[i].listed
        /\ run[j].auth \in DenialKinds
        /\ RoundTripsInFlight = {}
        /\ \A k \in Runs : run[k].pc # "listing"

(***************************************************************************)
(* C14                                                                     *)
(***************************************************************************)
\* C14: fetchFileList settles with an error for every status >= 400, the one for
\* 401 and 403 differing from the one for any other status >= 400, and for a 200
\* response whose body lists files it returns exactly those files in their order.
C14_ListingClassified ==
    call.result # Pending
       => /\ call.status >= 400 => call.result.kind = "throw"
          /\ call.status \in {401, 403}
                => \A s \in FetchStatuses \ {401, 403} :
                      s >= 400 => call.result # FetchFileListResult(s, call.body)
          /\ (call.status = 200 /\ call.body.kind = "array")
                => call.result.kind = "return" /\ call.result.value = call.body

(***************************************************************************)
(* C15                                                                     *)
(***************************************************************************)
\* C15: the file list is a well-formed sequence in every reachable state; a
\* response with status < 400 and no file collection never makes it undefined.
C15_FilesWellFormed == files.kind = "array"

(***************************************************************************)
(* C16                                                                     *)
(***************************************************************************)
\* the message each denial kind is to set
DenialMessage(kind) ==
    CASE kind = "popup_closed" -> MsgPopupClosed
      [] kind = "provider_error" -> MsgUnexpected
      [] OTHER -> MsgCallbackDenied

\* C16: the three denial kinds set three different messages, and each denial
\* leaves the system Unauthorized with no round-trip in flight.
C16_DenialsDistinguished ==
    [][\A i \in Runs :
          DenialStep(i)
             => /\ error' = DenialMessage(run'[i].auth)
                /\ Cardinality({MsgPopupClosed, MsgUnexpected, MsgCallbackDenied}) = 3
                /\ Unauthorized'
                /\ RoundTripsInFlight' = {}]_vars

(***************************************************************************)
(* C17                                                                     *)
(***************************************************************************)
\* C17: the completion callback of a revoke removes the stored token only if it
\* is the token that was passed to the provider's revoke call; a newer token is
\* left in place.
C17_RevokeClearsItsToken ==
    [][\A v \in Revokes :
          RevokeCompletes(v)
             => \/ accessToken = revoke[v].tok
                \/ accessToken' = accessToken]_vars

(***************************************************************************)
(* C18                                                                     *)
(***************************************************************************)
\* C18: in every reachable state, a displayed file list that is not empty comes
\* with a stored token.
C18_NoFilesWithoutCredential == FilesShown => accessToken # Null

(***************************************************************************)
(* C19                                                                     *)
(***************************************************************************)
\* C19: the step in which a listing request fails leaves the stored token,
\* expiresAt and the displayed file list as they were.
C19_FailedListingChangesNothing ==
    [][\A i \in Runs :
          ListingFails(i) => /\ accessToken' = accessToken
                             /\ tokenExpiresAt' = tokenExpiresAt
                             /\ files' = files]_vars

\* a listing has failed while a token is stored and a file list is displayed
C19_Witness ==
    \E i \in Runs :
        /\ run[i].pc = "failed" /\ run[i].listed
        /\ accessToken # Null
        /\ FilesShown

(***************************************************************************)
(* C20                                                                     *)
(***************************************************************************)
\* C20: the argument of every fetchFileList call is a token, never null: it is
\* the stored token at the call, and a token is stored only by a grant.
C20_ListingBearerPresent ==
    [][/\ \A i \in Runs :
             IssuesListing(i)
                => /\ run'[i].bearer \in Tokens
                   /\ run'[i].bearer = accessToken'
       /\ (accessToken' # accessToken /\ accessToken' # Null)
             => \E j \in Runs : GrantStep(j)]_vars

\* a revoke has completed and cleared the token while a listing request is
\* out: the request carries the token it was issued with
C20_Witness ==
    \E i \in Runs, v \in Revokes :
        /\ run[i].pc = "listing" /\ run[i].bearer \in Tokens
        /\ revoke[v].pc = "done"
        /\ accessToken = Null
====
